---- MODULE Spec2Model ----
(***************************************************************************)
(* A model of the owanimo crate: the grouping pass (Board::owanimo_grouper *)
(* with Groups::find), the size filter (RefGroups::owanimo_pop), the       *)
(* nuisance expansion (RefGroups::owanimo_nuisance), the handle gravity    *)
(* (GravityBoard::fall over AutoGravityBoard), the scorers of standard.rs  *)
(* and the chain loop (QuickSimBoard::quick_sim).  The concrete board is   *)
(* the TileBoard of tests/normal.rs, scaled down.                          *)
(*                                                                         *)
(* Vec and slice indices are 0-based as in the source: a column or a table *)
(* is a function over 0..len-1.  A Vec that is only iterated, filtered and *)
(* pushed to (Groups.groups, RefGroups.groups) is a TLA+ sequence.         *)
(***************************************************************************)
EXTENDS Integers, Sequences, FiniteSets, TLC

VARIABLES
    pc,         \* where the caller is: which call has returned, or "panicked"
    board,      \* the board the calls act on
    before,     \* the board as it was when the last call started
    cols,       \* fall: the handle column of every x as the mutater left it
    did_fall,   \* fall: the returned bool
    calls,      \* number of calls made so far
    groups,     \* the Groups owanimo_grouper returned
    view,       \* the RefGroups a method is called on (self)
    result,     \* the RefGroups the method returned
    pieces_to_pop,  \* the threshold handed to owanimo_pop
    args,       \* the scorers (and chain power table) a call was handed
    ret,        \* what the last scorer call, or the last pass of quick_sim, computed
    score,      \* quick_sim: let mut score
    chain,      \* quick_sim: let mut chain
    pieces_cleared,     \* quick_sim: let mut pieces_cleared
    max_pieces_at_once  \* quick_sim: let mut max_pieces_at_once

vars == <<pc, board, before, cols, did_fall, calls, groups, view, result, pieces_to_pop,
          args, ret, score, chain, pieces_cleared, max_pieces_at_once>>

gravityVars == <<before, cols, did_fall, calls>>
groupVars == <<groups, view, result, pieces_to_pop>>
simVars == <<args, ret, score, chain, pieces_cleared, max_pieces_at_once>>

\* The variables a specification does not use keep these values.
NoGravity == cols = <<>> /\ did_fall = FALSE /\ calls = 0
NoGroups == groups = <<>> /\ view = <<>> /\ result = <<>> /\ pieces_to_pop = 0
NoSim ==
    /\ args = <<>> /\ ret = <<>>
    /\ score = 0 /\ chain = 0 /\ pieces_cleared = 0 /\ max_pieces_at_once = 0

(***************************************************************************)
(* Bounds of the model.                                                    *)
(***************************************************************************)
MaxCols == 2
MaxLen  == 4
MaxFalls == 2

(***************************************************************************)
(* 0-based vectors.                                                        *)
(***************************************************************************)
Len0(v) == Cardinality(DOMAIN v)

Vec0(n, S) == [0..(n - 1) -> S]

(***************************************************************************)
(* TileBoard (tests/normal.rs).  items[y][x], y = 0 the bottom row.        *)
(***************************************************************************)
GravityTiles == {"Air", "Red"}

TileBoard(w, h, items) == [w |-> w, h |-> h, items |-> items]

get(b, p) ==
    IF p[2] \in 0..(b.h - 1) /\ p[1] \in 0..(b.w - 1)
    THEN b.items[p[2]][p[1]]
    ELSE "Air"

getcol(b, x) == [y \in 0..(b.h - 1) |-> get(b, <<x, y>>)]

setcol(b, x, vs) ==
    [b EXCEPT !.items =
        [y \in 0..(b.h - 1) |->
            [xx \in 0..(b.w - 1) |-> IF xx = x THEN vs[y] ELSE b.items[y][xx]]]]

is_air(b, handle) == get(b, handle) = "Air"

(***************************************************************************)
(* GravityBoard::fall, the closure handed to mutate_columns                *)
(* (gravity.rs 15-45).  A read col[index] with index outside the column    *)
(* panics (Rust bounds check): exit "panic".                               *)
(***************************************************************************)
RECURSIVE AirScan(_, _, _)
AirScan(this, col, index) ==
    \* while this.is_air(col[index]) { index += 1; if index == col.len() { break 'outer } }
    IF index \notin DOMAIN col THEN [index |-> index, exit |-> "panic"]
    ELSE IF ~is_air(this, col[index]) THEN [index |-> index, exit |-> "fallthrough"]
    ELSE IF index + 1 = Len0(col) THEN [index |-> index + 1, exit |-> "break_outer"]
    ELSE AirScan(this, col, index + 1)

RECURSIVE SolidScan(_, _, _)
SolidScan(this, col, index) ==
    \* while !this.is_air(col[index]) { index += 1; if index == col.len() { break } }
    IF index \notin DOMAIN col THEN [index |-> index, exit |-> "panic"]
    ELSE IF is_air(this, col[index]) THEN [index |-> index, exit |-> "fallthrough"]
    ELSE IF index + 1 = Len0(col) THEN [index |-> index + 1, exit |-> "break"]
    ELSE SolidScan(this, col, index + 1)

rotate_left_by_one(col, from, to, mid) ==
    [i \in DOMAIN col |->
        IF from <= i /\ i < to
        THEN col[from + ((i - from + 1) % (to - from))]
        ELSE col[i]]

rotate_left(col, from, to, mid) ==
    \* col[from..to].rotate_left(mid)
    [i \in DOMAIN col |->
        IF from <= i /\ i < to
        THEN col[from + ((i - from + mid) % (to - from))]
        ELSE col[i]]

record_fall_always(cursor_a, cursor_b, fell) == TRUE

record_fall_long_run(cursor_a, cursor_b, fell) ==
    IF cursor_b > cursor_a + 1 THEN TRUE ELSE fell

record_fall(cursor_a, cursor_b, fell) ==
    \* if cursor_b != cursor_a { did_fall = true; }
    IF cursor_b # cursor_a THEN TRUE ELSE fell

RECURSIVE ScanColumn(_, _, _, _)
ScanColumn(this, col, index, fell) ==
    \* one turn of 'outer: loop { ... }, then the turns after it
    LET cursor_a == index
        a == AirScan(this, col, index)
    IN  IF a.exit = "panic" THEN [col |-> col, did_fall |-> fell, panic |-> TRUE]
        ELSE IF a.exit = "break_outer" THEN [col |-> col, did_fall |-> fell, panic |-> FALSE]
        ELSE
        LET cursor_b == a.index
            s == SolidScan(this, col, a.index)
            fell2 == record_fall(cursor_a, cursor_b, fell)
            mid == cursor_b - cursor_a
        IN  IF s.exit = "panic" \/ cursor_a > s.index \/ s.index > Len0(col)
               \/ mid > s.index - cursor_a \/ mid > s.index
            THEN [col |-> col, did_fall |-> fell2, panic |-> TRUE]
            ELSE
            LET col2 == rotate_left(col, cursor_a, s.index, mid)
                index2 == s.index - mid
            IN  IF index2 = Len0(col)
                THEN [col |-> col2, did_fall |-> fell2, panic |-> FALSE]
                ELSE ScanColumn(this, col2, index2, fell2)

(***************************************************************************)
(* AutoGravityBoard::mutate_columns of TileBoard (normal.rs 224-238): for  *)
(* each x the handles (x,0)..(x,h-1) go to the mutater, and the tiles of   *)
(* the column are rewritten in the order the mutater left the handles in.  *)
(***************************************************************************)
handle_column(b, x) == [y \in 0..(b.h - 1) |-> <<x, y>>]

RECURSIVE mutate_columns(_, _, _, _)
mutate_columns(b, x, fell, done) ==
    IF x = b.w THEN [board |-> b, cols |-> done, did_fall |-> fell, panic |-> FALSE]
    ELSE
    LET r == ScanColumn(b, handle_column(b, x), 0, fell)
        tiles_original == getcol(b, x)
        tiles_new == [i \in 0..(b.h - 1) |-> tiles_original[r.col[i][2]]]
    IN  IF r.panic
        THEN [board |-> b, cols |-> done, did_fall |-> r.did_fall, panic |-> TRUE]
        ELSE mutate_columns(setcol(b, x, tiles_new), x + 1, r.did_fall,
                            [xx \in 0..x |-> IF xx = x THEN r.col ELSE done[xx]])

fall(b) == mutate_columns(b, 0, FALSE, <<>>)

(***************************************************************************)
(* Gravity: a caller that calls fall() on a board, then again.             *)
(***************************************************************************)
GravityBoards ==
    UNION { { TileBoard(w, h, items) : items \in Vec0(h, Vec0(w, GravityTiles)) }
            : <<w, h>> \in (1..MaxCols) \X (0..MaxLen) }

InitFall ==
    /\ board \in GravityBoards
    /\ before = board
    /\ cols = <<>>
    /\ did_fall = FALSE
    /\ calls = 0
    /\ pc = "start"
    /\ NoGroups /\ NoSim

Fall ==
    /\ pc \in {"start", "returned"}
    /\ calls < MaxFalls
    /\ LET r == fall(board)
       IN  /\ before' = board
           /\ board' = r.board
           /\ cols' = r.cols
           /\ did_fall' = r.did_fall
           /\ pc' = IF r.panic THEN "panicked" ELSE "returned"
    /\ calls' = calls + 1
    /\ UNCHANGED <<groupVars, simVars>>

NextFall == Fall

SpecFall == InitFall /\ [][NextFall]_vars

(***************************************************************************)
(* What a column is expected to look like, stated without the scan.        *)
(***************************************************************************)
Solid(b, col) == {i \in DOMAIN col : ~is_air(b, col[i])}

IsPermutationOf(c1, c0) ==
    /\ DOMAIN c1 = DOMAIN c0
    /\ {c1[i] : i \in DOMAIN c1} = {c0[i] : i \in DOMAIN c0}
    /\ \A i, j \in DOMAIN c1 : c1[i] = c1[j] => i = j

\* c1 is c0 with the non-air handles first, in their order in c0, then the air.
IsStableCompaction(b, c1, c0) ==
    LET k == Cardinality(Solid(b, c0))
    IN  /\ IsPermutationOf(c1, c0)
        /\ \A i \in DOMAIN c1 : (i < k) <=> ~is_air(b, c1[i])
        /\ \A i, j \in DOMAIN c1 :
              (i < j /\ j < k) =>
                  \E m, n \in DOMAIN c0 : m < n /\ c0[m] = c1[i] /\ c0[n] = c1[j]

AirBelowSolid(b, x) ==
    \E y1, y2 \in 0..(b.h - 1) :
        y1 < y2 /\ is_air(b, <<x, y1>>) /\ ~is_air(b, <<x, y2>>)

\* C3: every column the mutater was handed is, after fall, the stable
\* compaction of the column before: non-air handles first in their original
\* order, then the air handles; it is a permutation of what it was, and the
\* board's tiles follow the handles.
C3_StableCompaction ==
    pc = "returned" =>
        \A x \in 0..(before.w - 1) :
            /\ IsStableCompaction(before, cols[x], handle_column(before, x))
            /\ \A i \in 0..(before.h - 1) :
                  get(board, <<x, i>>) = get(before, cols[x][i])

C3_Witness ==
    /\ pc = "returned" /\ calls = 1
    /\ \E x \in 0..(before.w - 1) :
          /\ before.h = 4
          /\ getcol(before, x) = [y \in 0..3 |-> IF y \in {1, 3} THEN "Red" ELSE "Air"]
          /\ cols[x] = [y \in 0..3 |-> <<x, (<<1, 3, 0, 2>>)[y + 1]>>]

\* C4: fall returns true iff some column's order of handles differs from the
\* order before, and false exactly when no column had air below a non-air tile.
C4_ReturnsWhetherMoved ==
    pc = "returned" =>
        /\ did_fall <=> \E x \in 0..(before.w - 1) : cols[x] # handle_column(before, x)
        /\ (~did_fall) <=> ~(\E x \in 0..(before.w - 1) : AirBelowSolid(before, x))

C4_Witness ==
    /\ pc = "returned" /\ calls = 1 /\ did_fall
    /\ before.w = 2
    /\ cols[0] # handle_column(before, 0)
    /\ cols[1] = handle_column(before, 1)

\* C5: the second of two falls in a row changes no column and returns false.
C5_Idempotent ==
    (pc = "returned" /\ calls >= 2) =>
        /\ ~did_fall
        /\ board = before
        /\ \A x \in 0..(board.w - 1) : cols[x] = handle_column(board, x)

C5_Witness ==
    /\ pc = "returned" /\ calls = 2 /\ ~did_fall
    /\ board.h >= 3
    /\ \E x \in 0..(board.w - 1) :
          getcol(board, x)[0] = "Red" /\ getcol(board, x)[board.h - 1] = "Air"

(***************************************************************************)
(* The Board trait (lib.rs 14-48).  A board is either the TileBoard above  *)
(* or a board given by its capabilities: the sequence tiles() yields, the  *)
(* list neighbors(h) yields for each handle, the relation connects and the *)
(* set of nuisance handles.                                                *)
(***************************************************************************)
Handles == {1, 2, 3}

\* the groups owanimo_grouper builds hold at least one handle
NonEmptyGroups == (SUBSET Handles) \ {{}}

IsTileBoard(b) == "items" \in DOMAIN b

\* (0..6).flat_map(move |x| (0..12).map(move |y| (x, y)))
tile_tiles(b) == [k \in 1..(b.w * b.h) |-> <<(k - 1) \div b.h, (k - 1) % b.h>>]

tile_neighbors(b, p) ==
    LET x == p[1]
        y == p[2]
    IN  (IF x > 0 THEN <<(<<x - 1, y>>)>> ELSE <<>>)
        \o (IF y > 0 THEN <<(<<x, y - 1>>)>> ELSE <<>>)
        \o (IF x < b.w - 1 THEN <<(<<x + 1, y>>)>> ELSE <<>>)
        \o (IF y < b.h - 1 THEN <<(<<x, y + 1>>)>> ELSE <<>>)

tile_connects(b, a, c) ==
    IF get(b, a) \in {"Air", "Nuisance"} /\ get(b, c) \in {"Air", "Nuisance"}
    THEN FALSE
    ELSE get(b, a) = get(b, c)

tile_nuisance(b, p) == get(b, p) = "Nuisance"

tiles(b) == IF IsTileBoard(b) THEN tile_tiles(b) ELSE b.tiles

neighbors(b, handle) ==
    IF IsTileBoard(b) THEN tile_neighbors(b, handle) ELSE b.neighbors[handle]

connects(b, a, c) ==
    IF IsTileBoard(b) THEN tile_connects(b, a, c) ELSE <<a, c>> \in b.connects

nuisance(b, handle) ==
    IF IsTileBoard(b) THEN tile_nuisance(b, handle) ELSE handle \in b.nuisance

(***************************************************************************)
(* Groups::find (lib.rs 64-66): extract_if(..).next() takes the first      *)
(* group holding the handle out of the list and leaves the others.         *)
(***************************************************************************)
find(gs, handle) ==
    LET hits == {i \in DOMAIN gs : handle \in gs[i]}
    IN  IF hits = {}
        THEN [some |-> FALSE, x |-> {}, rest |-> gs]
        ELSE LET i == CHOOSE k \in hits : \A m \in hits : k <= m
             IN  [some |-> TRUE, x |-> gs[i],
                  rest |-> SubSeq(gs, 1, i - 1) \o SubSeq(gs, i + 1, Len(gs))]

(***************************************************************************)
(* Board::owanimo_grouper (lib.rs 33-47).                                  *)
(***************************************************************************)
RECURSIVE visit_neighbors(_, _, _, _, _)
visit_neighbors(b, tile, ns, me_group, gs) ==
    \* for neighbor in self.neighbors(&tile) { ... }
    IF ns = <<>> THEN [me_group |-> me_group, groups |-> gs]
    ELSE
    LET neighbor == Head(ns)
        f == find(gs, neighbor)
    IN  IF connects(b, tile, neighbor) /\ f.some
        THEN visit_neighbors(b, tile, Tail(ns), me_group \cup f.x, f.rest)
        ELSE visit_neighbors(b, tile, Tail(ns), me_group, gs)

RECURSIVE visit_tiles(_, _, _)
visit_tiles(b, ts, gs) ==
    \* for tile in self.tiles() { ...; groups.push(me_group); }
    IF ts = <<>> THEN gs
    ELSE
    LET tile == Head(ts)
        r == visit_neighbors(b, tile, neighbors(b, tile), {tile}, gs)
    IN  visit_tiles(b, Tail(ts), Append(r.groups, r.me_group))

owanimo_grouper(b) == visit_tiles(b, tiles(b), <<>>)

(***************************************************************************)
(* Boards for the grouping pass: every enumeration order of every subset   *)
(* of the handles, every neighbor listing, every symmetric connects.       *)
(***************************************************************************)
RECURSIVE SetToSeq(_)
SetToSeq(S) ==
    IF S = {} THEN <<>>
    ELSE LET m == CHOOSE k \in S : \A n \in S : k <= n
         IN  <<m>> \o SetToSeq(S \ {m})

Orders(S) ==
    {t \in [1..Cardinality(S) -> S] : \A i, j \in DOMAIN t : t[i] = t[j] => i = j}

TileOrders == UNION {Orders(S) : S \in SUBSET Handles}

NeighborLists == {SetToSeq(S) : S \in SUBSET Handles}

SymmetricConnects ==
    { {<<a, c>> \in Handles \X Handles : {a, c} \in E}
        : E \in SUBSET {{a, c} : <<a, c>> \in {q \in Handles \X Handles : q[1] # q[2]}} }

InitGroup ==
    /\ \E t \in TileOrders, c \in SymmetricConnects :
       \E n1, n2, n3 \in NeighborLists :
          board = [tiles |-> t, neighbors |-> <<n1, n2, n3>>, connects |-> c, nuisance |-> {}]
    /\ before = board /\ NoGravity /\ NoGroups /\ NoSim
    /\ pc = "start"

Grouper ==
    /\ pc = "start"
    /\ groups' = owanimo_grouper(board)
    /\ pc' = "grouped"
    /\ UNCHANGED <<board, view, result, pieces_to_pop>>
    /\ UNCHANGED <<gravityVars, simVars>>

NextGroup == Grouper

SpecGroup == InitGroup /\ [][NextGroup]_vars

TileSet(b) == {tiles(b)[i] : i \in DOMAIN tiles(b)}

NeighborSet(b, a) == {neighbors(b, a)[i] : i \in DOMAIN neighbors(b, a)}

GroupSet(gs) == {gs[i] : i \in DOMAIN gs}

PairwiseDisjoint(gs) == \A i, j \in DOMAIN gs : i # j => gs[i] \cap gs[j] = {}

\* One of a, c is listed as a neighbor of the other, and the two connect.
Edge(b, a, c) ==
    /\ c \in NeighborSet(b, a) \/ a \in NeighborSet(b, c)
    /\ connects(b, a, c)

RECURSIVE ReachFrom(_, _)
ReachFrom(b, S) ==
    LET S2 == S \cup {c \in TileSet(b) : \E a \in S : Edge(b, a, c)}
    IN  IF S2 = S THEN S ELSE ReachFrom(b, S2)

ConnectedByPath(b, a, c) == c \in ReachFrom(b, {a})

SameGroup(gs, a, c) == \E i \in DOMAIN gs : a \in gs[i] /\ c \in gs[i]

SymmetricListing(b) ==
    \A a, c \in TileSet(b) : c \in NeighborSet(b, a) <=> a \in NeighborSet(b, c)

\* C1: the groups owanimo_grouper returns are the maximal connected
\* components: pairwise disjoint, their union is the set of tiles, and two
\* tiles share a group iff a path of neighbor edges that connect joins them.
C1_GroupsAreComponents ==
    pc = "grouped" =>
        /\ PairwiseDisjoint(groups)
        /\ UNION GroupSet(groups) = TileSet(board)
        /\ \A a, c \in TileSet(board) :
              SameGroup(groups, a, c) <=> ConnectedByPath(board, a, c)
        /\ (tiles(board) = <<>> => groups = <<>>)

\* C2: every enumeration order of the same tiles gives the same set of groups.
C2_OrderIndependent ==
    pc = "grouped" =>
        \A t \in Orders(TileSet(board)) :
            GroupSet(owanimo_grouper([board EXCEPT !.tiles = t])) = GroupSet(groups)

\* What the two claims come to on the boards whose neighbor listing is
\* symmetric among the tiles.
GrouperOnSymmetricListings ==
    SymmetricListing(board) => (C1_GroupsAreComponents /\ C2_OrderIndependent)

(***************************************************************************)
(* RefGroups::owanimo_pop (lib.rs 140-144).                                *)
(***************************************************************************)
MaxView == 3
MaxPop == 4

large_enough_strict(g, t) == Cardinality(g) > t

large_enough(g, t) ==
    \* |g| g.len() >= pieces_to_pop
    Cardinality(g) >= t

owanimo_pop(self, t) == SelectSeq(self, LAMBDA g : large_enough(g, t))

SeqsUpTo(S, n) == UNION {[1..k -> S] : k \in 0..n}

InitPop ==
    /\ view \in SeqsUpTo(SUBSET Handles, MaxView)
    /\ pieces_to_pop \in 0..MaxPop
    /\ result = <<>>
    /\ groups = <<>>
    /\ board = [tiles |-> <<>>, neighbors |-> [h \in Handles |-> <<>>],
                connects |-> {}, nuisance |-> {}]
    /\ before = board /\ NoGravity /\ NoSim
    /\ pc = "start"

Pop ==
    /\ pc = "start"
    /\ result' = owanimo_pop(view, pieces_to_pop)
    /\ pc' = "popped"
    /\ UNCHANGED <<board, groups, view, pieces_to_pop>>
    /\ UNCHANGED <<gravityVars, simVars>>

NextPop == Pop

SpecPop == InitPop /\ [][NextPop]_vars

\* The positions of the view whose group has at least t members.
Kept(v, t) == {i \in DOMAIN v : Cardinality(v[i]) >= t}

\* The j-th smallest member of a set of positions.
Nth(P, j) == CHOOSE i \in P : Cardinality({m \in P : m <= i}) = j

\* C6: the result of owanimo_pop(t) holds exactly the groups of the view with
\* at least t members, each as it was and in the view's order, and the view
\* itself is left as it was.
C6_PopIsStableFilter ==
    [][pc' = "popped" =>
        /\ Len(result') = Cardinality(Kept(view, pieces_to_pop))
        /\ \A j \in DOMAIN result' :
              result'[j] = view[Nth(Kept(view, pieces_to_pop), j)]
        /\ view' = view]_vars

C6_Witness ==
    /\ pc = "popped"
    /\ pieces_to_pop = 1
    /\ Len(view) = 3 /\ view[1] = {} /\ Cardinality(view[2]) = 1 /\ Cardinality(view[3]) = 2
    /\ result = <<view[2], view[3]>>

(***************************************************************************)
(* RefGroups::test (lib.rs 128-134) and RefGroups::owanimo_nuisance        *)
(* (standard.rs 133-152).                                                  *)
(***************************************************************************)
MaxSelected == 2

test(self, handle) == \E i \in DOMAIN self : handle \in self[i]

\* .filter(|p| board.nuisance(p)).filter(|p| board.neighbors(p).any(|n| self.test(&n)))
sucked_in(self, b, p) ==
    /\ nuisance(b, p)
    /\ \E k \in DOMAIN neighbors(b, p) : test(self, neighbors(b, p)[k])

singletons(ts) == [k \in DOMAIN ts |-> {ts[k]}]

owanimo_nuisance_spreading(self, b) ==
    LET once == self \o singletons(SelectSeq(tiles(b), LAMBDA p : sucked_in(self, b, p)))
    IN  self \o singletons(SelectSeq(tiles(b), LAMBDA p : sucked_in(once, b, p)))

owanimo_nuisance(self, b) ==
    self \o singletons(SelectSeq(tiles(b), LAMBDA p : sucked_in(self, b, p)))

NeighborListsOf(h) == {SetToSeq(S) : S \in SUBSET (Handles \ {h})}

InitNuisance ==
    /\ \E t \in TileOrders, nu \in SUBSET Handles :
       \E n1 \in NeighborListsOf(1), n2 \in NeighborListsOf(2), n3 \in NeighborListsOf(3) :
          board = [tiles |-> t, neighbors |-> <<n1, n2, n3>>, connects |-> {}, nuisance |-> nu]
    /\ view \in SeqsUpTo(NonEmptyGroups, MaxSelected)
    /\ result = <<>> /\ groups = <<>> /\ pieces_to_pop = 0
    /\ before = board /\ NoGravity /\ NoSim
    /\ pc = "start"

Nuisance ==
    /\ pc = "start"
    /\ result' = owanimo_nuisance(view, board)
    /\ pc' = "expanded"
    /\ UNCHANGED <<board, groups, view, pieces_to_pop>>
    /\ UNCHANGED <<gravityVars, simVars>>

NextNuisance == Nuisance

SpecNuisance == InitNuisance /\ [][NextNuisance]_vars

\* The positions of tiles() whose tile is a nuisance tile with a neighbor in
\* one of the groups of v.
Adjacent(v, b) ==
    {k \in DOMAIN tiles(b) :
        /\ nuisance(b, tiles(b)[k])
        /\ NeighborSet(b, tiles(b)[k]) \cap UNION GroupSet(v) # {}}

Added(v, r) == {r[j] : j \in (Len(v) + 1)..Len(r)}

\* C7: owanimo_nuisance returns the selected groups as they were and in
\* order, then one singleton per tile of tiles(), in that order, that is a
\* nuisance tile with a neighbor in a selected group; a nuisance tile none of
\* whose neighbors is in a selected group is not added, whatever was added.
C7_NuisanceOneLevel ==
    pc = "expanded" =>
        /\ Len(result) = Len(view) + Cardinality(Adjacent(view, board))
        /\ SubSeq(result, 1, Len(view)) = view
        /\ \A j \in 1..Cardinality(Adjacent(view, board)) :
              result[Len(view) + j] = {tiles(board)[Nth(Adjacent(view, board), j)]}
        /\ \A p \in TileSet(board) :
              (NeighborSet(board, p) \cap UNION GroupSet(view) = {})
                  => {p} \notin Added(view, result)

C7_Witness ==
    /\ pc = "expanded"
    /\ Len(view) = 2
    /\ \E p, q \in TileSet(board) :
          /\ p # q /\ nuisance(board, p) /\ nuisance(board, q)
          /\ {q} \in Added(view, result)
          /\ NeighborSet(board, p) = {q}
          /\ {p} \notin Added(view, result)
          /\ ~test(view, p) /\ ~test(view, q)

(***************************************************************************)
(* Scorers (lib.rs 152-166, standard.rs 13-124).  A scorer is a record     *)
(* naming its type and holding its fields.  u64 values stay far below      *)
(* 2^64 here: overflow of the sums and products is not modelled.           *)
(***************************************************************************)
MaxTable == 2
MaxChain == 3

TableEntries == {1, 2}

Tables == UNION {Vec0(n, TableEntries) : n \in 0..MaxTable}

None == [some |-> FALSE]
Some(v) == [some |-> TRUE, v |-> v]

\* slice.get(index), slice.last(), Option::or, Option::unwrap_or
slice_get(table, index) == IF index \in DOMAIN table THEN Some(table[index]) ELSE None
slice_last(table) == IF Len0(table) > 0 THEN Some(table[Len0(table) - 1]) ELSE None
slice_first(table) == IF Len0(table) > 0 THEN Some(table[0]) ELSE None
or(a, c) == IF a.some THEN a ELSE c
unwrap_or(a, default) == IF a.some THEN a.v ELSE default

lookup_or_first(table, index) == unwrap_or(or(slice_get(table, index), slice_first(table)), 0)

\* table.get(index).or(table.last()).unwrap_or(&0)
lookup(table, index) == unwrap_or(or(slice_get(table, index), slice_last(table)), 0)

\* ColorBoard::color: of TileBoard (normal.rs 209-218), or as the board gives it.
color(b, handle) ==
    IF IsTileBoard(b)
    THEN IF get(b, handle) \in {"Air", "Nuisance"} THEN None ELSE Some(get(b, handle))
    ELSE b.color[handle]

\* g.iter().next(): a HashSet yields its members in an order of its own;
\* firsts[i] is what group i yields first (None for an empty group).
RECURSIVE FirstChoices(_)
FirstChoices(popped) ==
    IF popped = <<>> THEN {<<>>}
    ELSE LET heads == IF Head(popped) = {} THEN {None}
                      ELSE {Some(h) : h \in Head(popped)}
         IN  {<<x>> \o rest : x \in heads, rest \in FirstChoices(Tail(popped))}

\* g.iter().next().and_then(|handle| board.color(handle))
first_color(b, firsts, i) ==
    IF firsts[i].some THEN color(b, firsts[i].v) ELSE None

RECURSIVE SumUpTo(_, _)
SumUpTo(f, n) == IF n = 0 THEN 0 ELSE f[n] + SumUpTo(f, n - 1)

\* TrivialPiecesCleared::score: popped.groups.iter().map(|x| x.len() as u64).sum()
trivial_pieces_cleared(popped) ==
    SumUpTo([i \in DOMAIN popped |-> Cardinality(popped[i])], Len(popped))

\* ColorBonusTable::score
color_bonus_score(table, b, popped, firsts) ==
    LET colors == {first_color(b, firsts, i).v :
                      i \in {k \in DOMAIN popped : first_color(b, firsts, k).some}}
    IN  lookup(table, Cardinality(colors))

\* GroupFromColorBoard: consider_for_group_bonus
consider_for_group_bonus(b, popped, firsts, i) == first_color(b, firsts, i).some

\* GroupBonusTable::score
group_bonus_score(table, b, popped, firsts) ==
    SumUpTo([i \in DOMAIN popped |->
                IF consider_for_group_bonus(b, popped, firsts, i)
                THEN lookup(table, Cardinality(popped[i]))
                ELSE 0], Len(popped))

Unit == [type |-> "()"]
U64(n) == [type |-> "u64", value |-> n]
TrivialPiecesCleared == [type |-> "TrivialPiecesCleared"]
ColorBonusTable(table) == [type |-> "ColorBonusTable", table |-> table]
GroupBonusTable(table) == [type |-> "GroupBonusTable", table |-> table]

\* Scorer::score of the scorers that are not built from others
scorer_score(s, b, popped, firsts) ==
    CASE s.type = "()" -> 0
      [] s.type = "u64" -> s.value
      [] s.type = "TrivialPiecesCleared" -> trivial_pieces_cleared(popped)
      [] s.type = "ColorBonusTable" -> color_bonus_score(s.table, b, popped, firsts)
      [] s.type = "GroupBonusTable" -> group_bonus_score(s.table, b, popped, firsts)

\* pub fn score (standard.rs 13-27): the pair (score, multiplier)
score_pair(b, popped, firsts, s_pc, s_pb, s_cp, s_cb, s_gb) ==
    \* s_pc: pieces_cleared, s_pb: point_bonus, s_cp: chain_power,
    \* s_cb: color_bonus, s_gb: group_bonus
    <<10 * scorer_score(s_pc, b, popped, firsts) + scorer_score(s_pb, b, popped, firsts),
      scorer_score(s_cp, b, popped, firsts)
         + scorer_score(s_cb, b, popped, firsts)
         + scorer_score(s_gb, b, popped, firsts)>>

StandardScorer(s_pieces_cleared, s_point_bonus, s_chain_power, s_color_bonus, s_group_bonus) ==
    [type |-> "StandardScorer", pieces_cleared |-> s_pieces_cleared,
     point_bonus |-> s_point_bonus, chain_power |-> s_chain_power,
     color_bonus |-> s_color_bonus, group_bonus |-> s_group_bonus]

standard_score_without_group_bonus(s, b, popped, firsts) ==
    LET ab == score_pair(b, popped, firsts, s.pieces_cleared, s.point_bonus,
                         s.chain_power, s.color_bonus, s.color_bonus)
    IN  ab[1] * ab[2]

\* StandardScorer::score (standard.rs 46-61): group_bonus and color_bonus are
\* handed to score() in each other's place.
standard_score(s, b, popped, firsts) ==
    LET ab == score_pair(b, popped, firsts, s.pieces_cleared, s.point_bonus,
                         s.chain_power, s.group_bonus, s.color_bonus)
    IN  ab[1] * ab[2]

\* quick_sim (quicksim.rs 25-28): chain_power of the pass's StandardScorer
chain_power_of(chain_power_table, ch) == U64(lookup(chain_power_table, ch))

(***************************************************************************)
(* Scoring: a caller that hands a board and a list of popped groups to one *)
(* scorer, or builds the chain power of a pass from the chain power table. *)
(***************************************************************************)
MaxPopped == 2

FromSeq(q) == [i \in 0..(Len(q) - 1) |-> q[i + 1]]

Colors == {None, Some("Red"), Some("Blue")}

StandardScorers ==
    {StandardScorer(p, b, c, cb, gb) :
        p \in {TrivialPiecesCleared, U64(2)},
        b \in {Unit, U64(1)},
        c \in {U64(0), U64(1)},
        cb \in {Unit, ColorBonusTable(FromSeq(<<0, 10, 20>>))},
        gb \in {Unit, GroupBonusTable(FromSeq(<<3, 4>>))}}

InitScore ==
    /\ \E cl \in [Handles -> Colors] :
          board = [tiles |-> SetToSeq(Handles), neighbors |-> [h \in Handles |-> <<>>],
                   connects |-> {}, nuisance |-> {h \in Handles : ~cl[h].some},
                   color |-> cl]
    /\ view \in SeqsUpTo(NonEmptyGroups, MaxPopped)
    /\ groups = <<>> /\ result = <<>> /\ pieces_to_pop = 0
    /\ before = board /\ NoGravity /\ NoSim
    /\ pc = "start"

\* scorer.score(board, popped) for a table scorer
ScoreTable ==
    /\ pc = "start"
    /\ \E table \in Tables, f \in FirstChoices(view) :
       \E s \in {ColorBonusTable(table), GroupBonusTable(table)} :
          /\ args' = s
          /\ ret' = [firsts |-> f, value |-> scorer_score(s, board, view, f)]
    /\ pc' = "scored"
    /\ UNCHANGED <<board, groupVars, gravityVars, score, chain, pieces_cleared, max_pieces_at_once>>

\* scorer.score(board, popped) for a StandardScorer
ScoreStandard ==
    /\ pc = "start"
    /\ \E s \in StandardScorers, f \in FirstChoices(view) :
          /\ args' = s
          /\ ret' = [firsts |-> f, value |-> standard_score(s, board, view, f)]
    /\ pc' = "scored"
    /\ UNCHANGED <<board, groupVars, gravityVars, score, chain, pieces_cleared, max_pieces_at_once>>

\* the chain_power field quick_sim builds at chain depth ch
BuildChainPower ==
    /\ pc = "start"
    /\ \E table \in Tables, ch \in 0..MaxChain :
          /\ args' = [type |-> "chain_power_table", table |-> table]
          /\ chain' = ch
          /\ ret' = [firsts |-> <<>>, value |-> chain_power_of(table, ch).value]
    /\ pc' = "scored"
    /\ UNCHANGED <<board, groupVars, gravityVars, score, pieces_cleared, max_pieces_at_once>>

NextScore == ScoreTable \/ ScoreStandard \/ BuildChainPower

SpecScore == InitScore /\ [][NextScore]_vars

\* The entry of a table a lookup is expected to yield.
Entry(table, index) ==
    IF DOMAIN table = {} THEN 0
    ELSE IF index < Len0(table) THEN table[index]
    ELSE table[Len0(table) - 1]

\* The colors of the tiles the popped groups yielded first.
FirstColors(b, firsts) ==
    {color(b, firsts[i].v) : i \in {k \in DOMAIN firsts : firsts[k].some}} \ {None}

\* The groups the board considers for the group bonus.
Considered(b, firsts) ==
    {i \in DOMAIN firsts : firsts[i].some /\ color(b, firsts[i].v).some}

RECURSIVE SumOver(_, _)
SumOver(f, I) ==
    IF I = {} THEN 0
    ELSE LET i == CHOOSE k \in I : TRUE IN f[i] + SumOver(f, I \ {i})

\* C8: every table lookup yields the entry at its index, the last entry when
\* the index is past the end, and 0 when the table is empty: the color bonus
\* at the number of distinct first-tile colors, the group bonus at each
\* considered group's size, the chain power at the chain depth.
C8_LookupsClamp ==
    pc = "scored" =>
        CASE args.type = "ColorBonusTable" ->
                ret.value = Entry(args.table, Cardinality(FirstColors(board, ret.firsts)))
          [] args.type = "GroupBonusTable" ->
                ret.value = SumOver([i \in DOMAIN view |-> Entry(args.table, Cardinality(view[i]))],
                                    Considered(board, ret.firsts))
          [] args.type = "chain_power_table" ->
                ret.value = Entry(args.table, chain)
          [] OTHER -> TRUE

\* a color bonus looked up past the end of a two-entry table: two distinct
\* first-tile colors, and the last entry comes back
C8_Witness ==
    /\ pc = "scored"
    /\ args.type = "ColorBonusTable"
    /\ Len0(args.table) = 2 /\ args.table[0] = 1 /\ args.table[1] = 2
    /\ Cardinality(FirstColors(board, ret.firsts)) = 2
    /\ ret.value = 2

\* C9: StandardScorer::score is
\* (10 * pieces_cleared + point_bonus) * (chain_power + color_bonus + group_bonus),
\* each term the score of the scorer in the field of that name on the same
\* board and groups; one group of three with no bonus scores 0, and 30 with
\* chain power 1.
C9_StandardFormula ==
    (pc = "scored" /\ args.type = "StandardScorer") =>
        LET S(x) == scorer_score(x, board, view, ret.firsts)
        IN  /\ ret.value = (10 * S(args.pieces_cleared) + S(args.point_bonus))
                           * (S(args.chain_power) + S(args.color_bonus) + S(args.group_bonus))
            /\ ( /\ args.pieces_cleared = TrivialPiecesCleared
                 /\ args.point_bonus = Unit /\ args.color_bonus = Unit
                 /\ args.group_bonus = Unit
                 /\ view = <<Handles>> )
               => ret.value = 30 * args.chain_power.value

\* a StandardScorer with every term nonzero on two groups of two colors
C9_Witness ==
    /\ pc = "scored" /\ args.type = "StandardScorer"
    /\ args.pieces_cleared = TrivialPiecesCleared
    /\ args.point_bonus = U64(1)
    /\ args.chain_power = U64(1)
    /\ args.color_bonus.type = "ColorBonusTable"
    /\ args.group_bonus.type = "GroupBonusTable"
    /\ Len(view) = 2 /\ Cardinality(FirstColors(board, ret.firsts)) = 2
    /\ ret.value = (10 * 3 + 1) * (1 + 20 + 8)

(***************************************************************************)
(* QuickSimBoard::quick_sim (quicksim.rs 9-60) on a TileBoard.             *)
(* BanishBoard::banish is not among the sources: it is modelled from the   *)
(* specification (a banished position becomes air), which is also what     *)
(* TileBoard::pop of the tests does to each handle.                        *)
(***************************************************************************)
MaxPasses == 3
MaxSimPop == 2

SimTiles == {"Air", "Nuisance", "Red", "Blue"}

SimShapes == {<<2, 2>>, <<1, 3>>, <<1, 4>>}

SimBoards ==
    UNION { { TileBoard(sh[1], sh[2], items) : items \in Vec0(sh[2], Vec0(sh[1], SimTiles)) }
            : sh \in SimShapes }

\* the scorers and the chain power table a caller hands to quick_sim
SimArgs ==
    { [pc |-> TrivialPiecesCleared, pb |-> Unit, chain_power_table |-> FromSeq(<<1, 2>>),
       cb |-> ColorBonusTable(FromSeq(<<0, 10, 20>>)), gb |-> GroupBonusTable(FromSeq(<<3, 4>>))],
      [pc |-> TrivialPiecesCleared, pb |-> U64(1), chain_power_table |-> FromSeq(<<1>>),
       cb |-> Unit, gb |-> Unit],
      [pc |-> Unit, pb |-> Unit, chain_power_table |-> FromSeq(<<>>),
       cb |-> Unit, gb |-> Unit] }

banish(b, p) ==
    IF p[2] \in 0..(b.h - 1) /\ p[1] \in 0..(b.w - 1)
    THEN [b EXCEPT !.items[p[2]][p[1]] = "Air"]
    ELSE b

RECURSIVE banish_group(_, _)
banish_group(b, g) ==
    \* for &p in g.iter() { self.banish(p); }
    IF g = {} THEN b
    ELSE LET p == CHOOSE q \in g : TRUE IN banish_group(banish(b, p), g \ {p})

RECURSIVE banish_groups(_, _)
banish_groups(b, pg) ==
    \* for g in &pg { ... }
    IF pg = <<>> THEN b ELSE banish_groups(banish_group(b, Head(pg)), Tail(pg))

max(a, c) == IF a >= c THEN a ELSE c

InitSim ==
    /\ board \in SimBoards
    /\ pieces_to_pop \in 0..MaxSimPop
    /\ args \in SimArgs
    /\ ret = <<>>
    /\ score = 0 /\ chain = 0 /\ pieces_cleared = 0 /\ max_pieces_at_once = 0
    /\ groups = <<>> /\ view = <<>> /\ result = <<>>
    /\ before = board /\ NoGravity
    /\ pc = "loop"

\* One turn of the loop of quick_sim (quicksim.rs 22-53).  The model stops
\* after MaxPasses turns that did not break.
Pass ==
    /\ pc = "loop"
    /\ chain < MaxPasses
    /\ LET fell == fall(board)
           b == fell.board
           scorer == StandardScorer(args.pc, args.pb,
                                    chain_power_of(args.chain_power_table, chain),
                                    args.cb, args.gb)
           grps == owanimo_grouper(b)
           pg == owanimo_nuisance(owanimo_pop(grps, pieces_to_pop), b)
       IN  IF fell.panic
           THEN /\ pc' = "panicked"
                /\ UNCHANGED <<board, before, groups, view, result, ret, score, chain,
                               pieces_cleared, max_pieces_at_once>>
           ELSE \E f \in FirstChoices(pg) :
                LET this_score == standard_score(scorer, b, pg, f)
                    this_pieces_cleared == scorer_score(args.pc, b, pg, f)
                IN  /\ before' = b
                    /\ groups' = grps
                    /\ view' = owanimo_pop(grps, pieces_to_pop)
                    /\ result' = pg
                    /\ ret' = [this_score |-> this_score,
                               this_pieces_cleared |-> this_pieces_cleared]
                    /\ board' = banish_groups(b, pg)
                    /\ score' = score + this_score
                    /\ pieces_cleared' = pieces_cleared + this_pieces_cleared
                    /\ max_pieces_at_once' = max(max_pieces_at_once, this_pieces_cleared)
                    /\ IF this_pieces_cleared = 0
                       THEN pc' = "done" /\ chain' = chain
                       ELSE pc' = "loop" /\ chain' = chain + 1
    /\ UNCHANGED <<cols, did_fall, calls, pieces_to_pop, args>>

NextSim == Pass

SpecSim == InitSim /\ [][NextSim]_vars

\* C10: the pass that clears zero tiles only ends the loop: the board is the
\* board gravity left, and score, chain, pieces_cleared and max_pieces_at_once
\* are what they were before the pass.
C10_ZeroPassOnlyTerminates ==
    [][(pc = "loop" /\ pc' = "done") =>
          /\ board' = fall(board).board
          /\ chain' = chain
          /\ score' = score
          /\ pieces_cleared' = pieces_cleared
          /\ max_pieces_at_once' = max_pieces_at_once]_vars

\* The positions of a board that do not hold air.
NonAir(b) == {p \in {tile_tiles(b)[k] : k \in DOMAIN tile_tiles(b)} : ~is_air(b, p)}

\* C11: quick_sim terminates: a pass that does not return has banished at
\* least one non-air tile, so the board runs out of tiles and the loop
\* reaches the pass that clears zero tiles, for every board and every
\* pieces_to_pop.
C11_Terminates ==
    [][(pc = "loop" /\ pc' = "loop") =>
          Cardinality(NonAir(board')) < Cardinality(NonAir(board))]_vars

\* The passes MaxPasses cuts off are passes of a call that never returns: the
\* last pass counted tiles, and left the settled board it started from, so
\* the next pass computes the same groups and the same count again.
CutOffPassesRepeat ==
    (pc = "loop" /\ chain = MaxPasses) =>
        /\ board = before
        /\ fall(board).board = board
        /\ ret.this_pieces_cleared > 0

\* C12: with TrivialPiecesCleared no tile is counted twice: a pass adds to
\* pieces_cleared the number of tiles banish turned from non-air into air
\* (so pieces_cleared never exceeds the non-air tiles the board started
\* with), the groups it banished are pairwise disjoint, and
\* max_pieces_at_once <= pieces_cleared.
C12_NeverRecounted ==
    [][(pc = "loop" /\ args.pc = TrivialPiecesCleared /\ pc' # "panicked") =>
          /\ pieces_cleared' - pieces_cleared
                = Cardinality(NonAir(board)) - Cardinality(NonAir(board'))
          /\ PairwiseDisjoint(result')
          /\ max_pieces_at_once' <= pieces_cleared']_vars

\* C13: gravity never fails: no call of fall reads col[index] outside the
\* column or rotates a range that is not within it, for every column length
\* from 0 and every arrangement of air and non-air handles.
C13_GravityNeverFails == pc # "panicked"

\* The calls of fall that panic are the calls on columns of length 0.
FallPanicsOnEmptyColumnOnly == pc = "panicked" <=> (calls > 0 /\ board.h = 0)

====
